---- MODULE Spec2Model ----
(***************************************************************************)
(* Thrift binding layer of tchannel (tchannel/thrift/server.py):           *)
(* endpoint registration, the two handler-invocation strategies, the        *)
(* Response Value and the exception-to-result-union mapping.                *)
(*                                                                         *)
(* Python values are records tagged by k, so that any two of them can be   *)
(* compared.  A Python string is a sequence of tokens; a Python tuple      *)
(* t is a sequence s with t[i] = s[i+1].                                    *)
(***************************************************************************)
EXTENDS Integers, Sequences, FiniteSets, TLC

VARIABLES
    strategy,      \* which wrapper register installed: "legacy" | "modern"
    result_type,   \* thrift_spec of the <method>_result type the wrapper closes over
    pc,            \* position of the wrapper coroutine
    req,           \* legacy: the ThriftRequest (None until built)
    res,           \* the ThriftResponse (None until built)
    outcome,       \* how the user handler f resolved (None while it has not)
    response,      \* legacy: dispatcher-owned outbound response; modern: local `response`
    returned,      \* modern: the value of gen.Return (None while nothing is returned)
    escaped,       \* the error that left the wrapper (None while none has)
    hcalls,        \* history: names of the ThriftResponse methods f has called
    lastCall,      \* history: the last ThriftResponse method call, with the state before it
    events,        \* history: the wrapper's observable steps, in order
    handler_returns_response,  \* dispatcher._handler_returns_response
    table,         \* dispatcher's registrations, in the order of dispatcher.register calls
    lastReg,       \* history: the last call of register(), its inputs and its outcome
    calls,         \* invocations in flight at once: each coroutine's frame, by call id
    heap           \* the ThriftResponse objects those invocations hold, by object identity

vars == <<strategy, result_type, pc, req, res, outcome, response, returned,
          escaped, hcalls, lastCall, events, handler_returns_response, table, lastReg,
          calls, heap>>

callVars == <<strategy, result_type, pc, req, res, outcome, response, returned,
              escaped, hcalls, lastCall, events>>

regVars == <<handler_returns_response, table, lastReg>>

concVars == <<calls, heap>>

----------------------------------------------------------------------------
(* Bounds of the model *)

\* highest field id of a declared exception variant (thrift_spec[1..MaxFields])
MaxFields == 2
\* number of distinct plain values a handler can return
NumValues == 2
\* number of dispatcher.register calls followed
MaxRegs == 2

----------------------------------------------------------------------------
(* Python values *)

None == [k |-> "None"]
Val(v) == [k |-> "val", v |-> v]
Exc(t, m) == [k |-> "exc", type |-> t, msg |-> m]

Values == {Val(i) : i \in 1..NumValues}

\* Exception classes and their direct base class.  NotFound, NotFoundSub and
\* Denied are classes an IDL result type can declare; the others are raised
\* by Python itself or by user code.
BaseOf(c) ==
    CASE c = "NotFoundSub" -> "NotFound"
      [] OTHER -> "Exception"

DeclClasses == {"NotFound", "NotFoundSub", "Denied"}
Msgs == {"x", "y"}

\* the errors user code raises
UserErrors ==
    {Exc(t, "x") : t \in DeclClasses} \cup {Exc(t, m) : t \in {"RuntimeError"}, m \in Msgs}

\* isinstance(exc, cls): the class of exc is cls or derives from it
IsInstance(exc, cls) ==
    \/ exc.type = cls
    \/ BaseOf(exc.type) = cls
    \/ BaseOf(BaseOf(exc.type)) = cls

AlreadySent == Exc("AssertionError", "Already sent a response")
VoidResult == Exc("AssertionError", "Tried to return a result for a void method.")
TupleIndex == Exc("IndexError", "tuple index out of range")

----------------------------------------------------------------------------
(* Result types generated from the IDL *)

\* One entry of thrift_spec: (fid, ttype, name, (class, ...), default).  The
\* field name spec[2] is in bijection with the field id spec[0], so the
\* attribute of the result container is addressed by fid.
FieldSpec(fid, cls) == [k |-> "spec", fid |-> fid, cls |-> cls]
SuccessSpec == FieldSpec(0, "-")

\* The exception part thrift_spec[1:] : entry i is None (a gap in the field
\* ids) or the spec of variant i; the tuple ends at the last declared field.
VariantLists ==
    UNION { { [i \in 1..n |-> IF c[i] = "-" THEN None ELSE FieldSpec(i, c[i])] :
                c \in { d \in [1..n -> DeclClasses \cup {"-"}] : d[n] # "-" } }
            : n \in 1..MaxFields }

\* thrift_spec of a <method>_result type: () for a void method that declares
\* no exception, else (success-or-None, variants...)
ResultTypes ==
    {<<>>, <<SuccessSpec>>} \cup
    { <<s0>> \o v : s0 \in {None, SuccessSpec}, v \in VariantLists }

\* result_type(): a container of that type with every field unset
NewResult(ts) ==
    [k |-> "result", thrift_spec |-> ts, fields |-> [i \in 0..MaxFields |-> None]]

\* setattr(result, spec[2], value)
SetField(result, fid, value) ==
    [result EXCEPT !.fields = [@ EXCEPT ![fid] = value]]

----------------------------------------------------------------------------
(* ThriftResponse *)

HeaderNames == {"h"}
HeaderValues == {"a", "b"}
NoHeaders == [n \in {} |-> "a"]

\* ThriftResponse.__init__
ThriftResponse(result) ==
    [k |-> "ThriftResponse", headers |-> NoHeaders, result |-> result,
     finished |-> FALSE, code |-> "ok"]

\* The effect of a method call: the object after it and the error it raised
Effect(rv, raised) == [rv |-> rv, raised |-> raised]

\* ThriftResponse.write_header
write_header(rv, name, value) ==
    Effect([rv EXCEPT !.headers =
                [n \in (DOMAIN @) \cup {name} |-> IF n = name THEN value ELSE @[n]]],
           None)

\* write_result that stores the value and forgets to mark the response finished
write_result_unflagged(rv, result) ==
    LET ts == rv.result.thrift_spec IN
    IF rv.finished THEN Effect(rv, AlreadySent)
    ELSE IF Len(ts) = 0 THEN Effect(rv, TupleIndex)
    ELSE IF result # None /\ ts[1] = None THEN Effect(rv, VoidResult)
    ELSE IF result # None
         THEN Effect([rv EXCEPT !.result = SetField(@, ts[1].fid, result)], None)
         ELSE Effect([rv EXCEPT !.finished = TRUE], None)

\* write_result without its guard against a second write
write_result_unchecked(rv, result) ==
    LET ts == rv.result.thrift_spec IN
    IF Len(ts) = 0 THEN Effect(rv, TupleIndex)
    ELSE IF result # None /\ ts[1] = None THEN Effect(rv, VoidResult)
    ELSE IF result # None
         THEN Effect([rv EXCEPT !.result = SetField(@, ts[1].fid, result),
                                !.finished = TRUE], None)
         ELSE Effect([rv EXCEPT !.finished = TRUE], None)

\* ThriftResponse.write_result (assert statements are executed)
write_result(rv, result) ==
    LET ts == rv.result.thrift_spec IN
    IF rv.finished THEN Effect(rv, AlreadySent)
    ELSE IF Len(ts) = 0 THEN Effect(rv, TupleIndex)
    ELSE IF result # None /\ ts[1] = None THEN Effect(rv, VoidResult)
    ELSE IF result # None
         THEN Effect([rv EXCEPT !.result = SetField(@, ts[1].fid, result),
                                !.finished = TRUE], None)
         ELSE Effect([rv EXCEPT !.finished = TRUE], None)

\* the loop without its return: the last matching entry wins
RECURSIVE FirstMatch_last(_, _, _)
FirstMatch_last(ts, exc, i) ==
    IF i > Len(ts) THEN 0
    ELSE LET later == FirstMatch_last(ts, exc, i + 1) IN
         IF later # 0 THEN later
         ELSE IF ts[i] # None /\ IsInstance(exc, ts[i].cls) THEN i
         ELSE 0

\* The loop of write_exc_info over thrift_spec[1:], from tuple index i on:
\* the tuple index of the first entry that is set and whose class exc is an
\* instance of, or 0 when the loop runs off the end.
RECURSIVE FirstMatch(_, _, _)
FirstMatch(ts, exc, i) ==
    IF i > Len(ts) THEN 0
    ELSE IF ts[i] # None /\ IsInstance(exc, ts[i].cls) THEN i
    ELSE FirstMatch(ts, exc, i + 1)

\* write_exc_info that leaves the status code alone
write_exc_info_keepcode(rv, exc) ==
    LET ts == rv.result.thrift_spec
        m == FirstMatch(ts, exc, 2)
    IN  IF m = 0 THEN Effect(rv, exc)
        ELSE IF rv.finished THEN Effect(rv, AlreadySent)
        ELSE Effect([rv EXCEPT !.result = SetField(@, ts[m].fid, exc),
                               !.finished = TRUE], None)

\* write_exc_info that turns an unrecognized error into a generic one
write_exc_info_generic(rv, exc) ==
    LET ts == rv.result.thrift_spec
        rv1 == [rv EXCEPT !.code = "error"]
        m == FirstMatch(ts, exc, 2)
    IN  IF m = 0 THEN Effect(rv1, Exc("Exception", "unrecognized"))
        ELSE IF rv1.finished THEN Effect(rv1, AlreadySent)
        ELSE Effect([rv1 EXCEPT !.result = SetField(@, ts[m].fid, exc),
                                !.finished = TRUE], None)

\* write_exc_info without its guard against a second write
write_exc_info_overwrite(rv, exc) ==
    LET ts == rv.result.thrift_spec
        rv1 == [rv EXCEPT !.code = "error"]
        m == FirstMatch(ts, exc, 2)
    IN  IF m = 0 THEN Effect(rv1, exc)
        ELSE Effect([rv1 EXCEPT !.result = SetField(@, ts[m].fid, exc),
                                !.finished = TRUE], None)

\* write_exc_info that marks the response finished before it looks for a variant
write_exc_info_flagged(rv, exc) ==
    LET ts == rv.result.thrift_spec
        rv1 == [rv EXCEPT !.code = "error"]
        m == FirstMatch(ts, exc, 2)
    IN  IF m = 0 THEN Effect([rv1 EXCEPT !.finished = TRUE], exc)
        ELSE IF rv1.finished THEN Effect(rv1, AlreadySent)
        ELSE Effect([rv1 EXCEPT !.result = SetField(@, ts[m].fid, exc),
                                !.finished = TRUE], None)

\* write_exc_info that stores the error before it checks for a second write
write_exc_info_setfirst(rv, exc) ==
    LET ts == rv.result.thrift_spec
        rv1 == [rv EXCEPT !.code = "error"]
        m == FirstMatch(ts, exc, 2)
    IN  IF m = 0 THEN Effect(rv1, exc)
        ELSE IF rv1.finished
             THEN Effect([rv1 EXCEPT !.result = SetField(@, ts[m].fid, exc)], AlreadySent)
        ELSE Effect([rv1 EXCEPT !.result = SetField(@, ts[m].fid, exc),
                                !.finished = TRUE], None)

\* write_exc_info that returns quietly when the response is already finished
write_exc_info_silent(rv, exc) ==
    LET ts == rv.result.thrift_spec
        rv1 == [rv EXCEPT !.code = "error"]
        m == FirstMatch(ts, exc, 2)
    IN  IF m = 0 THEN Effect(rv1, exc)
        ELSE IF rv1.finished THEN Effect(rv1, None)
        ELSE Effect([rv1 EXCEPT !.result = SetField(@, ts[m].fid, exc),
                                !.finished = TRUE], None)

\* ThriftResponse.write_exc_info(exc_info), exc_info[1] = exc.  A failing
\* call keeps the status code it has already assigned.
write_exc_info(rv, exc) ==
    LET ts == rv.result.thrift_spec
        rv1 == [rv EXCEPT !.code = "error"]
        m == FirstMatch(ts, exc, 2)
    IN  IF m = 0 THEN Effect(rv1, exc)
        ELSE IF rv1.finished THEN Effect(rv1, AlreadySent)
        ELSE Effect([rv1 EXCEPT !.result = SetField(@, ts[m].fid, exc),
                                !.finished = TRUE], None)

----------------------------------------------------------------------------
(* Objects of the dispatcher the wrappers work on *)

\* tchannel.Response(body): the response wrapper of the modern convention
Response(body) ==
    [k |-> "Response", body |-> body, headers |-> "none", status |-> "ok"]

\* the wrappers a modern handler can build itself and return
UserResponses ==
    { [Response(b) EXCEPT !.headers = h, !.status = st] :
        b \in {None} \cup Values, h \in {"none", "hdrs"}, st \in {"ok", "failed"} }

\* the dispatcher-owned outbound response of the legacy convention, unwritten
OutboundResponse ==
    [k |-> "DeprecatedResponse", code |-> "unset", headers |-> NoHeaders, body |-> None]

\* the raw request the dispatcher delivers
RawHeaders == "call-headers"
RawBody == "call-args"
DecodeError == Exc("Exception", "decode")

\* ThriftRequest(headers, args, transport)
ThriftRequest(headers, args) ==
    [k |-> "ThriftRequest", headers |-> headers, args |-> args,
     transport |-> "TransportMetadata"]

\* register's choice of wrapper: build_handler unless the dispatcher's
\* handlers return their response
WrapperFor(flag) ==
    IF ~flag THEN "legacy" ELSE "modern"

Returned(v) == [kind |-> "return", value |-> v]
Raised(e) == [kind |-> "raise", value |-> e]

\* history record of one ThriftResponse method call
Call(by, op, arg, pre, eff) ==
    [by |-> by, op |-> op, arg |-> arg, pre |-> pre, post |-> eff.rv,
     raised |-> eff.raised]

----------------------------------------------------------------------------
(* Legacy strategy: build_handler(result_type, f).handler *)

\* ThriftRequest._from_raw_request: yield request.get_header()
GetHeader ==
    /\ strategy = "legacy" /\ pc = "start"
    /\ \E ok \in BOOLEAN :
         IF ok THEN /\ pc' = "header"
                    /\ events' = Append(events, "get_header")
                    /\ escaped' = escaped
               ELSE /\ pc' = "failed"
                    /\ events' = events
                    /\ escaped' = DecodeError
    /\ UNCHANGED <<strategy, result_type, req, res, outcome, response, returned,
                   hcalls, lastCall>>
    /\ UNCHANGED regVars
    /\ UNCHANGED concVars

\* yield request.get_body(); then the ThriftRequest and the ThriftResponse
\* are built and f(req, res, tchannel) is called
GetBody ==
    /\ strategy = "legacy" /\ pc = "header"
    /\ \E ok \in BOOLEAN :
         IF ok THEN /\ pc' = "handler"
                    /\ events' = events \o <<"get_body", "request", "invoke">>
                    /\ req' = ThriftRequest(RawHeaders, RawBody)
                    /\ res' = ThriftResponse(NewResult(result_type))
                    /\ escaped' = escaped
               ELSE /\ pc' = "failed"
                    /\ events' = events
                    /\ req' = req /\ res' = res
                    /\ escaped' = DecodeError
    /\ UNCHANGED <<strategy, result_type, outcome, response, returned, hcalls, lastCall>>
    /\ UNCHANGED regVars
    /\ UNCHANGED concVars

\* f calls res.write_header(name, value)
HWriteHeader ==
    /\ strategy = "legacy" /\ pc = "handler"
    /\ \E n \in HeaderNames, v \in HeaderValues :
         LET eff == write_header(res, n, v) IN
         /\ res' = eff.rv
         /\ lastCall' = Call("f", "write_header", <<n, v>>, res, eff)
    /\ hcalls' = hcalls \cup {"write_header"}
    /\ UNCHANGED <<strategy, result_type, pc, req, outcome, response, returned,
                   escaped, events>>
    /\ UNCHANGED regVars
    /\ UNCHANGED concVars

\* f calls res.write_result(value); a failure is raised inside f
HWriteResult ==
    /\ strategy = "legacy" /\ pc = "handler"
    /\ \E v \in {None} \cup Values :
         LET eff == write_result(res, v) IN
         /\ res' = eff.rv
         /\ lastCall' = Call("f", "write_result", v, res, eff)
    /\ hcalls' = hcalls \cup {"write_result"}
    /\ UNCHANGED <<strategy, result_type, pc, req, outcome, response, returned,
                   escaped, events>>
    /\ UNCHANGED regVars
    /\ UNCHANGED concVars

\* f calls res.write_exc_info(exc_info) for an error it holds
HWriteExcInfo ==
    /\ strategy = "legacy" /\ pc = "handler"
    /\ \E e \in UserErrors :
         LET eff == write_exc_info(res, e) IN
         /\ res' = eff.rv
         /\ lastCall' = Call("f", "write_exc_info", e, res, eff)
    /\ hcalls' = hcalls \cup {"write_exc_info"}
    /\ UNCHANGED <<strategy, result_type, pc, req, outcome, response, returned,
                   escaped, events>>
    /\ UNCHANGED regVars
    /\ UNCHANGED concVars

\* what f can return: nothing, a plain value, or (modern) a response wrapper
ReturnValues ==
    {None} \cup Values \cup (IF strategy = "modern" THEN UserResponses ELSE {})

\* what f can raise: an error of its own, or the failure of the call of a
\* ThriftResponse method it has just made
RaisedErrors ==
    UserErrors \cup
    (IF lastCall # None /\ lastCall.by = "f" /\ lastCall.raised # None
     THEN {lastCall.raised} ELSE {})

\* f returns (the future of gen.maybe_future resolves with a value)
HReturn ==
    /\ pc = "handler"
    /\ \E v \in ReturnValues : outcome' = Returned(v)
    /\ pc' = "resolved"
    /\ events' = Append(events, "resolved")
    /\ UNCHANGED <<strategy, result_type, req, res, response, returned, escaped,
                   hcalls, lastCall>>
    /\ UNCHANGED regVars
    /\ UNCHANGED concVars

\* f raises (the future resolves with an error)
HRaise ==
    /\ pc = "handler"
    /\ \E e \in RaisedErrors : outcome' = Raised(e)
    /\ pc' = "resolved"
    /\ events' = Append(events, "resolved")
    /\ UNCHANGED <<strategy, result_type, req, res, response, returned, escaped,
                   hcalls, lastCall>>
    /\ UNCHANGED regVars
    /\ UNCHANGED concVars

\* the wrapper without the implicit write of the returned value
LegacyResolve_noimplicit(rv, out) ==
    IF out.kind = "raise" THEN <<"write_exc_info", out.value>>
    ELSE <<"none", None>>

\* the wrapper writing the returned value whatever was written before
LegacyResolve_lastwins(rv, out) ==
    IF out.kind = "raise" THEN <<"write_exc_info", out.value>>
    ELSE IF out.value # None THEN <<"write_result", out.value>>
    ELSE <<"none", None>>

\* The try/except/else of build_handler.handler after f resolved: the
\* ThriftResponse method the wrapper calls, if any, as <<op, arg>>
LegacyResolve(rv, out) ==
    IF out.kind = "raise" THEN <<"write_exc_info", out.value>>
    ELSE IF ~rv.finished /\ out.value # None THEN <<"write_result", out.value>>
    ELSE <<"none", None>>

\* the body handed over before the status code and the headers
LegacyWrites_bodyfirst == <<"write_body", "code", "write_header">>

\* the three writes on the outbound response that end build_handler.handler,
\* in program order
LegacyWrites == <<"code", "write_header", "write_body">>

\* the copy without the status code
LegacyCopy_nocode(rv, out) ==
    [out EXCEPT !.headers = rv.headers, !.body = rv.result]

\* response.code = res.code; response.write_header(res.headers);
\* response.write_body(res.result)
LegacyCopy(rv, out) ==
    [out EXCEPT !.code = rv.code, !.headers = rv.headers, !.body = rv.result]

\* the rest of build_handler.handler, run without suspension once f resolved
LegacyFinish ==
    /\ strategy = "legacy" /\ pc = "resolved"
    /\ LET step == LegacyResolve(res, outcome)
           eff == CASE step[1] = "write_exc_info" -> write_exc_info(res, step[2])
                    [] step[1] = "write_result" -> write_result(res, step[2])
                    [] OTHER -> Effect(res, None)
       IN  /\ res' = eff.rv
           /\ lastCall' = IF step[1] = "none" THEN lastCall
                          ELSE Call("wrapper", step[1], step[2], res, eff)
           /\ IF eff.raised # None
              THEN /\ escaped' = eff.raised
                   /\ pc' = "failed"
                   /\ UNCHANGED <<response, events>>
              ELSE /\ escaped' = escaped
                   /\ pc' = "done"
                   /\ response' = LegacyCopy(eff.rv, response)
                   /\ events' = events \o LegacyWrites
    /\ UNCHANGED <<strategy, result_type, req, outcome, returned, hcalls>>
    /\ UNCHANGED regVars
    /\ UNCHANGED concVars

----------------------------------------------------------------------------
(* Modern strategy: new_build_handler(result_type, f).handler *)

\* result = ThriftResponse(result_type()); response = Response(); f(request)
ModernStart ==
    /\ strategy = "modern" /\ pc = "start"
    /\ res' = ThriftResponse(NewResult(result_type))
    /\ response' = Response(None)
    /\ pc' = "handler"
    /\ events' = Append(events, "invoke")
    /\ UNCHANGED <<strategy, result_type, req, outcome, returned, escaped, hcalls,
                   lastCall>>
    /\ UNCHANGED regVars
    /\ UNCHANGED concVars

\* the normalisation of what f returned: None becomes an empty Response, a
\* value that is no Response becomes the body of one
Normalize(v) ==
    IF v = None THEN Response(None)
    ELSE IF v.k # "Response" THEN Response(v)
    ELSE v

\* The try/except/else of new_build_handler.handler after f resolved: the
\* local `response` and the ThriftResponse method called, as
\* <<response, op, arg>>
ModernResolve(resp, out) ==
    IF out.kind = "raise" THEN <<resp, "write_exc_info", out.value>>
    ELSE <<Normalize(out.value), "write_result", Normalize(out.value).body>>

\* a copy that also takes the status code of the ThriftResponse
ModernBody_copy(resp, rv) == [resp EXCEPT !.body = rv.result, !.status = rv.code]

\* response.body = result.result
ModernBody(resp, rv) == [resp EXCEPT !.body = rv.result]

\* the rest of new_build_handler.handler, run without suspension once f resolved
ModernFinish ==
    /\ strategy = "modern" /\ pc = "resolved"
    /\ LET step == ModernResolve(response, outcome)
           eff == IF step[2] = "write_exc_info" THEN write_exc_info(res, step[3])
                  ELSE write_result(res, step[3])
       IN  /\ res' = eff.rv
           /\ lastCall' = Call("wrapper", step[2], step[3], res, eff)
           /\ IF eff.raised # None
              THEN /\ escaped' = eff.raised
                   /\ pc' = "failed"
                   /\ response' = step[1]
                   /\ UNCHANGED <<returned, events>>
              ELSE /\ escaped' = escaped
                   /\ pc' = "done"
                   /\ response' = ModernBody(step[1], eff.rv)
                   /\ returned' = ModernBody(step[1], eff.rv)
                   /\ events' = Append(events, "return")
    /\ UNCHANGED <<strategy, result_type, req, outcome, hcalls>>
    /\ UNCHANGED regVars
    /\ UNCHANGED concVars

----------------------------------------------------------------------------
(* register(dispatcher, service_module, handler, method=None, service=None) *)

\* A Python str: a sequence of tokens, "." being the dot character
Str(s) == [k |-> "str", s |-> s]

\* `not x` for an argument that is None or a str
Falsy(x) == x = None \/ x.s = <<>>

\* s.split('.', 1)[-1]: what follows the first dot
RECURSIVE LastSegment_first(_)
LastSegment_first(s) ==
    IF s = <<>> THEN <<>>
    ELSE IF s[1] = "." THEN SubSeq(s, 2, Len(s))
    ELSE IF \A i \in 1..Len(s) : s[i] # "." THEN s
    ELSE LastSegment_first(SubSeq(s, 2, Len(s)))

\* s.rsplit('.', 1)[-1]: what follows the last dot, all of s when it has none
RECURSIVE LastSegment(_)
LastSegment(s) ==
    IF s = <<>> \/ s[Len(s)] = "." THEN <<>>
    ELSE Append(LastSegment(SubSeq(s, 1, Len(s) - 1)), s[Len(s)])

\* The module Thrift generated for
\*   service S { string hello(..) throws (1: NotFound e);
\*               void ping(); oneway void fire(); }
\* under some module name: Iface and the <method>_args / <method>_result types
IfaceMethods == {<<"hello">>, <<"ping">>, <<"fire">>}
ModuleAttrs ==
    {<<"hello", "_args">>, <<"hello", "_result">>, <<"ping", "_args">>,
     <<"ping", "_result">>, <<"fire", "_args">>}
ModuleAttr(name) ==
    CASE name = <<"hello", "_result">> -> <<SuccessSpec, FieldSpec(1, "NotFound")>>
      [] name = <<"ping", "_result">> -> <<>>
      [] OTHER -> name

\* module names: plain, dotted, and names whose trailing segment is empty
ModuleNames ==
    {<<"S">>, <<"a", ".", "pkg", ".", "T">>, <<"pkg", ".">>}
ServiceModule(name) == [k |-> "module", name |-> name]
ServiceModules == {ServiceModule(n) : n \in ModuleNames}

\* the handler functions, by __name__
Handlers == {[k |-> "function", name |-> n] :
                n \in {<<>>, <<"hello">>, <<"fire">>, <<"nope">>}}
MethodArgs == {None, Str(<<"ping">>)}
ServiceArgs == {None, Str(<<>>), Str(<<"Svc">>)}

\* hasattr(service_module.Iface, method)
HasMethod(method) == method \in IfaceMethods
\* a hasattr that finds every name
HasAttr_any(name) == TRUE

\* hasattr(service_module, name)
HasAttr(name) == name \in ModuleAttrs

\* lines 72-73: the service name register works with
ServiceName(service, service_module) ==
    IF Falsy(service) THEN LastSegment(service_module.name) ELSE service.s

\* lines 74-75: the method name register works with
MethodName(method, handler) ==
    IF Falsy(method) THEN handler.name ELSE method.s

\* line 86: '%s::%s' % (service, method)
Endpoint(service, method) == service \o <<"::">> \o method

\* lines 91-94: the handler register installs
Wrapped(flag, rtype, handler) ==
    [wrapper |-> WrapperFor(flag), result_type |-> rtype, f |-> handler]

\* dispatcher.register(endpoint, handler, req_serializer, resp_serializer):
\* one registration is added to the dispatcher's table
DispatcherRegister(t, endpoint, handler, req_serializer, resp_serializer) ==
    Append(t, [endpoint |-> endpoint, handler |-> handler,
               req_serializer |-> req_serializer,
               resp_serializer |-> resp_serializer])

RegError(cls, msg) == Exc(cls, msg)

\* register(): the dispatcher's table after the call, what it raised and
\* what it returned
register(flag, t, service_module, handler, method, service) ==
    LET svc == ServiceName(service, service_module)
        mth == MethodName(method, handler)
        fail(e) == [table |-> t, raised |-> e, ret |-> None]
    IN  IF svc = <<>>
        THEN fail(RegError("AssertionError", "A service name could not be determined"))
        ELSE IF mth = <<>>
        THEN fail(RegError("AssertionError", "A method name could not be determined"))
        ELSE IF ~HasMethod(mth)
        THEN fail(RegError("AssertionError", "Service doesn't define method"))
        ELSE IF ~HasAttr(Append(mth, "_result"))
        THEN fail(RegError("AssertionError", "oneway methods are not yet supported"))
        ELSE IF ~HasAttr(Append(mth, "_args"))
        THEN fail(RegError("AttributeError", "_args"))
        ELSE LET args_type == ModuleAttr(Append(mth, "_args"))
                 rtype == ModuleAttr(Append(mth, "_result"))
                 h == Wrapped(flag, rtype, handler)
             IN  [table |-> DispatcherRegister(t, Endpoint(svc, mth), h,
                                               args_type, rtype),
                  raised |-> None, ret |-> h]

Register ==
    /\ pc = "registering"
    /\ Len(table) < MaxRegs
    /\ \E m \in ServiceModules, h \in Handlers, method \in MethodArgs,
          service \in ServiceArgs :
         LET r == register(handler_returns_response, table, m, h, method, service) IN
         /\ table' = r.table
         /\ lastReg' = [service_module |-> m, handler |-> h, method |-> method,
                        service |-> service, pre |-> table, raised |-> r.raised,
                        ret |-> r.ret]
    /\ UNCHANGED handler_returns_response
    /\ UNCHANGED callVars
    /\ UNCHANGED concVars

InitReg ==
    /\ handler_returns_response \in BOOLEAN
    /\ table = <<>> /\ lastReg = None
    /\ strategy = WrapperFor(handler_returns_response)
    /\ result_type = <<>>
    /\ pc = "registering"
    /\ req = None /\ res = None /\ outcome = None
    /\ response = OutboundResponse
    /\ returned = None /\ escaped = None
    /\ hcalls = {} /\ lastCall = None
    /\ events = <<>>
    /\ calls = <<>> /\ heap = <<>>

NextReg == Register

SpecReg == InitReg /\ [][NextReg]_vars

----------------------------------------------------------------------------
(* One invocation of a registered Thrift endpoint *)

Init ==
    /\ handler_returns_response \in BOOLEAN
    /\ strategy = WrapperFor(handler_returns_response)
    /\ result_type \in ResultTypes
    /\ pc = "start"
    /\ req = None /\ res = None /\ outcome = None
    /\ response = OutboundResponse
    /\ returned = None /\ escaped = None
    /\ hcalls = {} /\ lastCall = None
    /\ events = <<>>
    /\ table = <<>> /\ lastReg = None
    /\ calls = <<>> /\ heap = <<>>

Next ==
    \/ GetHeader
    \/ GetBody
    \/ HWriteHeader
    \/ HWriteResult
    \/ HWriteExcInfo
    \/ HReturn
    \/ HRaise
    \/ LegacyFinish
    \/ ModernStart
    \/ ModernFinish

Spec == Init /\ [][Next]_vars

----------------------------------------------------------------------------
(* Invocations of one registered endpoint in flight at once.  Each call of the
   wrapper `handler` is a coroutine with its own frame; the coroutines
   interleave at their suspension points (the yields on request.get_header,
   request.get_body and on the future of f).  The registration (strategy,
   result_type) is shared and only read. *)

CallIds == {"c1", "c2"}
NullRef == "null"

\* the errors and the result type of the endpoint the calls share
ConcErrors == {Exc("NotFound", "x"), Exc("RuntimeError", "x"), AlreadySent}
ConcResultType == <<SuccessSpec, FieldSpec(1, "NotFound")>>

\* one ThriftResponse made when the wrapper is built and used by every call
AllocRef_shared(c) == "c1"

\* ThriftResponse(result_type()) inside `handler`: every invocation makes a
\* new object, identified here with the invocation that made it
AllocRef(c) == c

\* the frame of an invocation that has not run yet; `solo` and `alone` are
\* history: the ThriftResponse and the outcome of the same steps run alone
Frame0 ==
    [pc |-> "start", res |-> NullRef, outcome |-> None,
     response |-> OutboundResponse, escaped |-> None,
     solo |-> None, alone |-> None]

\* build_handler.handler from the resolution of f to its end, on the
\* ThriftResponse rv and the outbound response `out`
FinishLegacy(rv, outc, out) ==
    LET step == LegacyResolve(rv, outc)
        eff == CASE step[1] = "write_exc_info" -> write_exc_info(rv, step[2])
                 [] step[1] = "write_result" -> write_result(rv, step[2])
                 [] OTHER -> Effect(rv, None)
    IN  [rv |-> eff.rv, escaped |-> eff.raised,
         pc |-> IF eff.raised # None THEN "failed" ELSE "done",
         response |-> IF eff.raised # None THEN out ELSE LegacyCopy(eff.rv, out)]

\* new_build_handler.handler from the resolution of f to its end
FinishModern(rv, outc, resp) ==
    LET step == ModernResolve(resp, outc)
        eff == IF step[2] = "write_exc_info" THEN write_exc_info(rv, step[3])
               ELSE write_result(rv, step[3])
    IN  [rv |-> eff.rv, escaped |-> eff.raised,
         pc |-> IF eff.raised # None THEN "failed" ELSE "done",
         response |-> IF eff.raised # None THEN step[1] ELSE ModernBody(step[1], eff.rv)]

CGetHeader(c) ==
    /\ pc = "concurrent" /\ strategy = "legacy" /\ calls[c].pc = "start"
    /\ \E ok \in BOOLEAN :
         calls' = [calls EXCEPT ![c] =
                     IF ok THEN [@ EXCEPT !.pc = "header"]
                     ELSE [@ EXCEPT !.pc = "failed", !.escaped = DecodeError]]
    /\ UNCHANGED <<heap, callVars, regVars>>

CGetBody(c) ==
    /\ pc = "concurrent" /\ strategy = "legacy" /\ calls[c].pc = "header"
    /\ \E ok \in BOOLEAN :
         IF ok
         THEN /\ calls' = [calls EXCEPT ![c] =
                             [@ EXCEPT !.pc = "handler", !.res = AllocRef(c),
                                       !.solo = ThriftResponse(NewResult(result_type))]]
              /\ heap' = [heap EXCEPT ![AllocRef(c)] =
                             ThriftResponse(NewResult(result_type))]
         ELSE /\ calls' = [calls EXCEPT ![c] =
                             [@ EXCEPT !.pc = "failed", !.escaped = DecodeError]]
              /\ heap' = heap
    /\ UNCHANGED <<callVars, regVars>>

CModernStart(c) ==
    /\ pc = "concurrent" /\ strategy = "modern" /\ calls[c].pc = "start"
    /\ calls' = [calls EXCEPT ![c] =
                    [@ EXCEPT !.pc = "handler", !.res = AllocRef(c),
                              !.response = Response(None),
                              !.solo = ThriftResponse(NewResult(result_type))]]
    /\ heap' = [heap EXCEPT ![AllocRef(c)] = ThriftResponse(NewResult(result_type))]
    /\ UNCHANGED <<callVars, regVars>>

\* f of call c calls res.write_header on the object its `res` refers to
CWriteHeader(c) ==
    /\ pc = "concurrent" /\ strategy = "legacy" /\ calls[c].pc = "handler"
    /\ \E n \in HeaderNames, v \in HeaderValues :
         /\ heap' = [heap EXCEPT ![calls[c].res] = write_header(@, n, v).rv]
         /\ calls' = [calls EXCEPT ![c].solo = write_header(@, n, v).rv]
    /\ UNCHANGED <<callVars, regVars>>

CWriteResult(c) ==
    /\ pc = "concurrent" /\ strategy = "legacy" /\ calls[c].pc = "handler"
    /\ \E v \in {None} \cup Values :
         /\ heap' = [heap EXCEPT ![calls[c].res] = write_result(@, v).rv]
         /\ calls' = [calls EXCEPT ![c].solo = write_result(@, v).rv]
    /\ UNCHANGED <<callVars, regVars>>

CWriteExcInfo(c) ==
    /\ pc = "concurrent" /\ strategy = "legacy" /\ calls[c].pc = "handler"
    /\ \E e \in ConcErrors :
         /\ heap' = [heap EXCEPT ![calls[c].res] = write_exc_info(@, e).rv]
         /\ calls' = [calls EXCEPT ![c].solo = write_exc_info(@, e).rv]
    /\ UNCHANGED <<callVars, regVars>>

CReturn(c) ==
    /\ pc = "concurrent" /\ calls[c].pc = "handler"
    /\ \E v \in ReturnValues :
         calls' = [calls EXCEPT ![c] = [@ EXCEPT !.pc = "resolved",
                                                 !.outcome = Returned(v)]]
    /\ UNCHANGED <<heap, callVars, regVars>>

CRaise(c) ==
    /\ pc = "concurrent" /\ calls[c].pc = "handler"
    /\ \E e \in ConcErrors :
         calls' = [calls EXCEPT ![c] = [@ EXCEPT !.pc = "resolved",
                                                 !.outcome = Raised(e)]]
    /\ UNCHANGED <<heap, callVars, regVars>>

CLegacyFinish(c) ==
    /\ pc = "concurrent" /\ strategy = "legacy" /\ calls[c].pc = "resolved"
    /\ LET fin == FinishLegacy(heap[calls[c].res], calls[c].outcome, calls[c].response)
           al == FinishLegacy(calls[c].solo, calls[c].outcome, OutboundResponse)
       IN  /\ heap' = [heap EXCEPT ![calls[c].res] = fin.rv]
           /\ calls' = [calls EXCEPT ![c] =
                           [@ EXCEPT !.pc = fin.pc, !.response = fin.response,
                                     !.escaped = fin.escaped,
                                     !.solo = al.rv, !.alone = al]]
    /\ UNCHANGED <<callVars, regVars>>

CModernFinish(c) ==
    /\ pc = "concurrent" /\ strategy = "modern" /\ calls[c].pc = "resolved"
    /\ LET fin == FinishModern(heap[calls[c].res], calls[c].outcome, calls[c].response)
           al == FinishModern(calls[c].solo, calls[c].outcome, Response(None))
       IN  /\ heap' = [heap EXCEPT ![calls[c].res] = fin.rv]
           /\ calls' = [calls EXCEPT ![c] =
                           [@ EXCEPT !.pc = fin.pc, !.response = fin.response,
                                     !.escaped = fin.escaped,
                                     !.solo = al.rv, !.alone = al]]
    /\ UNCHANGED <<callVars, regVars>>

InitConc ==
    /\ handler_returns_response \in BOOLEAN
    /\ strategy = WrapperFor(handler_returns_response)
    /\ result_type = ConcResultType
    /\ pc = "concurrent"
    /\ req = None /\ res = None /\ outcome = None
    /\ response = OutboundResponse
    /\ returned = None /\ escaped = None
    /\ hcalls = {} /\ lastCall = None
    /\ events = <<>>
    /\ table = <<>> /\ lastReg = None
    /\ calls = [c \in CallIds |-> Frame0]
    /\ heap = [r \in CallIds |-> None]

NextConc ==
    \E c \in CallIds :
        \/ CGetHeader(c)
        \/ CGetBody(c)
        \/ CModernStart(c)
        \/ CWriteHeader(c)
        \/ CWriteResult(c)
        \/ CWriteExcInfo(c)
        \/ CReturn(c)
        \/ CRaise(c)
        \/ CLegacyFinish(c)
        \/ CModernFinish(c)

SpecConc == InitConc /\ [][NextConc]_vars

----------------------------------------------------------------------------
(* Vocabulary of the properties *)

\* the fields of a result container that are set
SetFields(result) == {i \in DOMAIN result.fields : result.fields[i] # None}

\* exactly field i of the container is set, to v
OnlyField(result, i, v) == SetFields(result) = {i} /\ result.fields[i] = v

\* class t is class c or one of its subclasses
DerivesFrom(t, c) ==
    t = c \/ c = "Exception" \/ (t = "NotFoundSub" /\ c = "NotFound")

\* the field ids of the declared exception variants of thrift_spec ts that
\* error e matches
MatchingFields(ts, e) ==
    {i \in 1..(Len(ts) - 1) : ts[i + 1] # None /\ DerivesFrom(e.type, ts[i + 1].cls)}

LowestOf(S) == CHOOSE i \in S : \A j \in S : i <= j

\* the result type declares a success field
NonVoid(ts) == Len(ts) > 0 /\ ts[1] # None

\* the container of type ts with only the success field set, to v
SuccessContainer(ts, v) ==
    [k |-> "result", thrift_spec |-> ts,
     fields |-> [i \in 0..MaxFields |-> IF i = 0 THEN v ELSE None]]

\* the invocation is over: the wrapper returned or an error left it
Over == pc \in {"done", "failed"}
HandlerRaised == outcome # None /\ outcome.kind = "raise"
HandlerReturned == outcome # None /\ outcome.kind = "return"

\* the wrapper, once f resolved, called a ThriftResponse method on a
\* response nothing had been written to
WrapperWroteFirst ==
    lastCall # None /\ lastCall.by = "wrapper" /\ ~lastCall.pre.finished

OutboundWrites == {"code", "write_header", "write_body"}
Written == {events[i] : i \in 1..Len(events)} \cap OutboundWrites

----------------------------------------------------------------------------
(* C1 *)

\* C1 as stated: whenever the handler raises an error that matches the I-th
\* declared variant and no result was written before, the response value
\* ends with exactly field I set to the error, code = error and finished.
C1_AsStated ==
    \A I \in 1..MaxFields :
        (Over /\ HandlerRaised /\ WrapperWroteFirst
              /\ I \in MatchingFields(result_type, outcome.value))
        => /\ OnlyField(res.result, I, outcome.value)
           /\ res.code = "error"
           /\ res.finished

\* C1 amended: the same, for I the lowest field id among the variants the
\* error matches.
C1_FirstMatchingFieldSet ==
    (Over /\ HandlerRaised /\ WrapperWroteFirst
          /\ MatchingFields(result_type, outcome.value) # {})
    => /\ OnlyField(res.result, LowestOf(MatchingFields(result_type, outcome.value)),
                    outcome.value)
       /\ res.code = "error"
       /\ res.finished
       /\ pc = "done"

\* an error matching both declared variants, mapped by the modern wrapper
C1_Witness ==
    /\ pc = "done" /\ HandlerRaised /\ WrapperWroteFirst
    /\ strategy = "modern"
    /\ MatchingFields(result_type, outcome.value) = {1, 2}
    /\ OnlyField(res.result, 1, outcome.value)
    /\ res.code = "error" /\ res.finished

----------------------------------------------------------------------------
(* C2 *)

\* C2: when the handler raises an error that matches no declared variant,
\* that very error leaves the wrapper; the legacy outbound response is never
\* written and the modern wrapper returns no response.
C2_UndeclaredErrorEscapes ==
    (Over /\ HandlerRaised /\ MatchingFields(result_type, outcome.value) = {})
    => /\ pc = "failed"
       /\ escaped = outcome.value
       /\ strategy = "legacy" => (response = OutboundResponse /\ Written = {})
       /\ strategy = "modern" => returned = None

C2_Witness ==
    /\ pc = "failed" /\ HandlerRaised
    /\ strategy = "legacy"
    /\ outcome.value = Exc("RuntimeError", "y")
    /\ escaped = Exc("RuntimeError", "y")
    /\ Len(result_type) > 1

----------------------------------------------------------------------------
(* C3 *)

\* C3: a write_result call on a finished response value, whatever the
\* value, fails with the double-write violation.
C3_WriteResultAfterFinishFails ==
    (lastCall # None /\ lastCall.op = "write_result" /\ lastCall.pre.finished)
    => lastCall.raised = AlreadySent

\* write_result(None) after a write_exc_info that set an exception field
C3_Witness ==
    /\ lastCall # None /\ lastCall.op = "write_result" /\ lastCall.pre.finished
    /\ lastCall.arg = None
    /\ "write_exc_info" \in hcalls
    /\ SetFields(lastCall.pre.result) = {1}
    /\ lastCall.raised = AlreadySent

----------------------------------------------------------------------------
(* C4 *)

\* C4: at most one field of the result container is ever set, and once the
\* response value is finished it stays finished and its container no longer
\* changes.
C4_SingleAssignment ==
    /\ [](res # None => Cardinality(SetFields(res.result)) <= 1)
    /\ [][(res # None /\ res.finished)
            => (res'.finished /\ res'.result = res.result)]_vars

C4_Witness ==
    /\ lastCall # None /\ lastCall.pre.finished /\ lastCall.raised # None
    /\ lastCall.op = "write_exc_info"
    /\ SetFields(res.result) = {0}
    /\ res.finished

----------------------------------------------------------------------------
(* C5 *)

\* C5 as stated: write_exc_info with an error that matches no declared
\* variant leaves the response value as it was and raises that error.
C5_AsStated ==
    (lastCall # None /\ lastCall.op = "write_exc_info"
       /\ MatchingFields(lastCall.pre.result.thrift_spec, lastCall.arg) = {})
    => /\ lastCall.post = lastCall.pre
       /\ lastCall.raised = lastCall.arg

\* C5 amended: such a call leaves the result container, the finished flag
\* and the headers as they were, sets the status code to error, and raises
\* that error.
C5_UnmatchedSetsOnlyCode ==
    (lastCall # None /\ lastCall.op = "write_exc_info"
       /\ MatchingFields(lastCall.pre.result.thrift_spec, lastCall.arg) = {})
    => /\ lastCall.post.result = lastCall.pre.result
       /\ lastCall.post.finished = lastCall.pre.finished
       /\ lastCall.post.headers = lastCall.pre.headers
       /\ lastCall.post.code = "error"
       /\ res = lastCall.post
       /\ lastCall.raised = lastCall.arg

C5_Witness ==
    /\ lastCall # None /\ lastCall.op = "write_exc_info"
    /\ MatchingFields(lastCall.pre.result.thrift_spec, lastCall.arg) = {}
    /\ Len(lastCall.pre.result.thrift_spec) > 1
    /\ lastCall.pre.code = "ok"
    /\ lastCall.post.code = "error"
    /\ lastCall.raised = lastCall.arg

----------------------------------------------------------------------------
(* C6 *)

\* C6: on an unfinished response value of a void method, write_result with
\* a value fails with the void-method violation, and write_result(None)
\* succeeds, marks the response finished and sets no field.
C6_VoidWriteResult ==
    (lastCall # None /\ lastCall.op = "write_result" /\ ~lastCall.pre.finished
       /\ ~NonVoid(lastCall.pre.result.thrift_spec))
    => IF lastCall.arg # None
       THEN lastCall.raised = VoidResult
       ELSE /\ lastCall.raised = None
            /\ lastCall.post.finished
            /\ SetFields(lastCall.post.result) = {}

----------------------------------------------------------------------------
(* C7 *)

\* f returned the plain value v of a method that is not void
ReturnedPlainValue ==
    Over /\ HandlerReturned /\ outcome.value \in Values /\ NonVoid(result_type)

\* C7 as stated: a handler of a non-void method that returns a plain value
\* v yields, under the modern strategy, a response whose body is the
\* container with only the success field set to v and, under the legacy
\* strategy when it did not call write_result, an outbound body equal to
\* that container with code = ok.
C7_AsStated ==
    /\ (ReturnedPlainValue /\ strategy = "modern")
       => /\ pc = "done"
          /\ returned.body = SuccessContainer(result_type, outcome.value)
    /\ (ReturnedPlainValue /\ strategy = "legacy" /\ "write_result" \notin hcalls)
       => /\ pc = "done"
          /\ response.body = SuccessContainer(result_type, outcome.value)
          /\ response.code = "ok"

\* C7 amended: the same, for a legacy handler that called neither
\* write_result nor write_exc_info.
C7_PlainValueBecomesSuccess ==
    /\ (ReturnedPlainValue /\ strategy = "modern")
       => /\ pc = "done"
          /\ returned.body = SuccessContainer(result_type, outcome.value)
    /\ (ReturnedPlainValue /\ strategy = "legacy"
          /\ hcalls \cap {"write_result", "write_exc_info"} = {})
       => /\ pc = "done"
          /\ response.body = SuccessContainer(result_type, outcome.value)
          /\ response.code = "ok"

\* a legacy handler that wrote a header and returned a value
C7_Witness ==
    /\ ReturnedPlainValue /\ strategy = "legacy" /\ pc = "done"
    /\ hcalls = {"write_header"}
    /\ Len(result_type) > 1
    /\ response.body = SuccessContainer(result_type, outcome.value)
    /\ response.code = "ok"

----------------------------------------------------------------------------
(* C8, C9 *)

\* an optional argument of register was given
Given(x) == x # None /\ x.s # <<>>

\* what follows the last dot of s
TrailingSegment(s) ==
    LET dots == {i \in 1..Len(s) : s[i] = "."}
        start == IF dots = {} THEN 1
                 ELSE (CHOOSE i \in dots : \A j \in dots : j <= i) + 1
    IN  SubSeq(s, start, Len(s))

ExpectedService ==
    IF Given(lastReg.service) THEN lastReg.service.s
    ELSE TrailingSegment(lastReg.service_module.name)

ExpectedMethod ==
    IF Given(lastReg.method) THEN lastReg.method.s ELSE lastReg.handler.name

MethodRegistrable ==
    /\ ExpectedMethod \in IfaceMethods
    /\ Append(ExpectedMethod, "_result") \in ModuleAttrs

\* the last register call succeeded and added the one expected entry
RegisteredOne ==
    /\ lastReg.raised = None
    /\ Len(table) = Len(lastReg.pre) + 1
    /\ SubSeq(table, 1, Len(lastReg.pre)) = lastReg.pre
    /\ table[Len(table)].endpoint = ExpectedService \o <<"::">> \o ExpectedMethod
    /\ table[Len(table)].handler.wrapper =
          (IF handler_returns_response THEN "modern" ELSE "legacy")
    /\ table[Len(table)].handler.f = lastReg.handler
    /\ lastReg.ret = table[Len(table)].handler

C9_RegisterFailsCleanly ==
    (lastReg # None /\ (ExpectedService = <<>> \/ ExpectedMethod = <<>>
                          \/ ~MethodRegistrable))
    => /\ lastReg.raised # None
       /\ lastReg.ret = None
       /\ table = lastReg.pre

\* a one-way method refused after an earlier registration
C9_Witness ==
    /\ lastReg # None /\ lastReg.raised # None
    /\ lastReg.raised.msg = "oneway methods are not yet supported"
    /\ ExpectedMethod = <<"fire">>
    /\ Len(table) = 1 /\ table = lastReg.pre

----------------------------------------------------------------------------
(* C10 *)

\* C10: a write_exc_info call on an unfinished response value with an error
\* that matches declared variants sets the field of the matching variant
\* with the lowest field id, and no other field.
C10_FirstMatchWins ==
    (lastCall # None /\ lastCall.op = "write_exc_info" /\ ~lastCall.pre.finished
       /\ MatchingFields(lastCall.pre.result.thrift_spec, lastCall.arg) # {})
    => /\ lastCall.raised = None
       /\ OnlyField(lastCall.post.result,
                    LowestOf(MatchingFields(lastCall.pre.result.thrift_spec,
                                            lastCall.arg)),
                    lastCall.arg)
       /\ res = lastCall.post

\* an instance of a subclass, declared after its base class
C10_Witness ==
    /\ lastCall # None /\ lastCall.op = "write_exc_info" /\ ~lastCall.pre.finished
    /\ lastCall.arg.type = "NotFoundSub"
    /\ Len(lastCall.pre.result.thrift_spec) = 3
    /\ lastCall.pre.result.thrift_spec[2] = FieldSpec(1, "NotFound")
    /\ lastCall.pre.result.thrift_spec[3] = FieldSpec(2, "NotFoundSub")
    /\ OnlyField(res.result, 1, lastCall.arg)

----------------------------------------------------------------------------
(* C11 *)

\* C11: a write_exc_info call with an error matching a declared variant on
\* a finished response value fails with the double-write violation and
\* leaves the result container as it was; so a legacy handler that finished
\* the response with write_result and then raises a declared error makes
\* the invocation fail with the double-write violation, the outbound
\* response never being written.
C11_ErrorWriteAfterFinishFails ==
    /\ (lastCall # None /\ lastCall.op = "write_exc_info" /\ lastCall.pre.finished
          /\ MatchingFields(lastCall.pre.result.thrift_spec, lastCall.arg) # {})
       => /\ lastCall.raised = AlreadySent
          /\ lastCall.post.result = lastCall.pre.result
          /\ res.result = lastCall.pre.result
    /\ (Over /\ strategy = "legacy" /\ HandlerRaised
          /\ MatchingFields(result_type, outcome.value) # {}
          /\ "write_result" \in hcalls
          /\ lastCall.by = "wrapper" /\ lastCall.pre.finished)
       => /\ pc = "failed"
          /\ escaped = AlreadySent
          /\ escaped # outcome.value
          /\ response = OutboundResponse /\ Written = {}

\* a legacy handler that wrote a value and then raised a declared error
C11_Witness ==
    /\ pc = "failed" /\ strategy = "legacy" /\ HandlerRaised
    /\ hcalls = {"write_result"}
    /\ MatchingFields(result_type, outcome.value) = {2}
    /\ lastCall.by = "wrapper" /\ lastCall.op = "write_exc_info"
    /\ SetFields(lastCall.pre.result) = {0}
    /\ escaped = AlreadySent

----------------------------------------------------------------------------
(* C12 *)

\* f made no call of write_result or write_exc_info
WroteNothing == hcalls \cap {"write_result", "write_exc_info"} = {}

\* f finished the response with a write_result call
ExplicitWrite ==
    "write_result" \in hcalls /\ res.finished /\ SetFields(res.result) \subseteq {0}

LegacyReturned == Over /\ strategy = "legacy" /\ HandlerReturned

\* C12: a legacy handler that returns is resolved in one of three ways.
\* (1) It finished the response with write_result: the wrapper writes
\* nothing, whatever was returned, nothing fails, and the outbound body is
\* the container the handler wrote.  (2) It wrote nothing and returned a
\* value: the wrapper calls write_result with that value.  (3) It wrote
\* nothing and returned None: the wrapper writes nothing, the outbound
\* response has code = ok and a container with no field set, and the
\* response value stays unfinished.
C12_ThreeOutcomes ==
    /\ (LegacyReturned /\ ExplicitWrite)
       => /\ pc = "done" /\ escaped = None
          /\ lastCall.by = "f"
          /\ response.body = res.result
          /\ (lastCall.op = "write_result" /\ lastCall.raised = None)
             => response.body.fields[0] = lastCall.arg
    /\ (LegacyReturned /\ WroteNothing /\ outcome.value # None)
       => /\ lastCall # None /\ lastCall.by = "wrapper"
          /\ lastCall.op = "write_result" /\ lastCall.arg = outcome.value
          /\ ~lastCall.pre.finished
    /\ (LegacyReturned /\ WroteNothing /\ outcome.value = None)
       => /\ pc = "done" /\ escaped = None
          /\ (lastCall = None \/ lastCall.by = "f")
          /\ response.code = "ok"
          /\ response.body.thrift_spec = result_type
          /\ SetFields(response.body) = {}
          /\ ~res.finished

\* a handler that wrote one value and returned another
C12_Witness ==
    /\ LegacyReturned /\ pc = "done" /\ lastCall # None
    /\ lastCall.by = "f" /\ lastCall.op = "write_result" /\ lastCall.raised = None
    /\ lastCall.arg = Val(1)
    /\ outcome.value = Val(2)
    /\ response.body.fields[0] = Val(1)

----------------------------------------------------------------------------
(* C13 *)

\* no exception field of the container is set
IsSuccess(result) == SetFields(result) \subseteq {0}

\* the outbound response carries the response value's code, headers and container
OutboundIsCopy ==
    /\ response.code = res.code
    /\ response.headers = res.headers
    /\ response.body = res.result

\* C13 as stated: when a legacy invocation completes without an escaping
\* error, the outbound response has the response value's final code,
\* headers and container; a mapped declared error gives code = error and a
\* success gives code = ok.
C13_AsStated ==
    (strategy = "legacy" /\ pc = "done")
    => /\ OutboundIsCopy
       /\ Written = OutboundWrites
       /\ HandlerRaised => response.code = "error"
       /\ ~IsSuccess(res.result) => response.code = "error"
       /\ IsSuccess(res.result) => response.code = "ok"

\* C13 amended: the same, a success giving code = ok when the handler made
\* no write_exc_info call (every such call, also one that fails, sets the
\* code to error).
C13_OutboundCopiesResponseValue ==
    (strategy = "legacy" /\ pc = "done")
    => /\ OutboundIsCopy
       /\ Written = OutboundWrites
       /\ HandlerRaised => response.code = "error"
       /\ ~IsSuccess(res.result) => response.code = "error"
       /\ (IsSuccess(res.result) /\ "write_exc_info" \notin hcalls)
          => response.code = "ok"

\* a handler that added a header and raised a declared error
C13_Witness ==
    /\ strategy = "legacy" /\ pc = "done" /\ HandlerRaised
    /\ hcalls = {"write_header"}
    /\ response.headers = res.headers /\ DOMAIN response.headers = {"h"}
    /\ response.code = "error"
    /\ SetFields(response.body) = {1}

----------------------------------------------------------------------------
(* C14 *)

\* C14: the modern wrapper puts the result container into the body of the
\* response it returns and takes neither status nor headers from the
\* response value: after a declared error the returned response is a fresh
\* wrapper with default status and headers (although the response value has
\* code = error), and a wrapper the handler returned keeps its own status
\* and headers.
C14_ModernKeepsStatusAndHeaders ==
    (strategy = "modern" /\ pc = "done")
    => /\ returned.body = res.result
       /\ returned = response
       /\ HandlerRaised
          => /\ returned.status = "ok" /\ returned.headers = "none"
             /\ res.code = "error"
             /\ SetFields(returned.body) =
                  {LowestOf(MatchingFields(result_type, outcome.value))}
       /\ (HandlerReturned /\ outcome.value.k = "Response")
          => /\ returned.status = outcome.value.status
             /\ returned.headers = outcome.value.headers

\* a declared error mapped by the modern wrapper
C14_Witness ==
    /\ strategy = "modern" /\ pc = "done" /\ HandlerRaised
    /\ res.code = "error"
    /\ returned.status = "ok" /\ returned.headers = "none"
    /\ SetFields(returned.body) = {1}

----------------------------------------------------------------------------
(* C15 *)

\* C15: when a modern handler returns, the wrapper makes exactly one
\* write_result call and returns a response: for None, a response whose
\* body is the container with no field set, the response value being
\* finished; for a plain value v (of a method that is not void), a fresh
\* response with body {success: v}; for a wrapper with body v, that wrapper
\* with its body replaced by {success: v}.
C15_ModernNormalizes ==
    (strategy = "modern" /\ Over /\ HandlerReturned)
    => /\ lastCall # None /\ lastCall.by = "wrapper" /\ lastCall.op = "write_result"
       /\ outcome.value = None
          => /\ pc = "done"
             /\ SetFields(returned.body) = {}
             /\ res.finished
       /\ (outcome.value \in Values /\ NonVoid(result_type))
          => /\ pc = "done"
             /\ returned.body = SuccessContainer(result_type, outcome.value)
             /\ returned.status = "ok" /\ returned.headers = "none"
       /\ (outcome.value.k = "Response" /\ outcome.value.body \in Values
             /\ NonVoid(result_type))
          => /\ pc = "done"
             /\ returned = [outcome.value EXCEPT
                              !.body = SuccessContainer(result_type, @)]


----------------------------------------------------------------------------
\* the invocations that hold a ThriftResponse
Allocated == {c \in CallIds : calls[c].res # NullRef}

\* C16: invocations of one endpoint in flight at once do not interfere: no two
\* of them hold the same Response Value, the Response Value an invocation
\* holds is at every moment the one its own steps alone produce (no write of
\* another invocation shows in it), and the outbound response, the escaping
\* error and the end of an invocation are those it has when it runs alone.
C16_InvocationsIsolated ==
    (pc = "concurrent")
    => /\ \A c, d \in Allocated : c # d => calls[c].res # calls[d].res
       /\ \A c \in Allocated : heap[calls[c].res] = calls[c].solo
       /\ \A c \in CallIds :
            calls[c].alone # None
            => /\ calls[c].response = calls[c].alone.response
               /\ calls[c].escaped = calls[c].alone.escaped
               /\ calls[c].pc = calls[c].alone.pc

\* two legacy invocations are suspended in their handlers at once, one has
\* written a declared error and the other a success
C16_Witness ==
    /\ pc = "concurrent" /\ strategy = "legacy"
    /\ calls["c1"].pc = "handler" /\ calls["c2"].pc = "handler"
    /\ SetFields(heap[calls["c1"].res].result) = {1}
    /\ heap[calls["c1"].res].code = "error"
    /\ SetFields(heap[calls["c2"].res].result) = {0}
    /\ heap[calls["c2"].res].code = "ok"


----------------------------------------------------------------------------
\* the steps of a legacy invocation that runs to its end, in order
LegacyOrder ==
    <<"get_header", "get_body", "request", "invoke", "resolved",
      "code", "write_header", "write_body">>

IsPrefix(s, t) == Len(s) <= Len(t) /\ \A i \in 1..Len(s) : s[i] = t[i]

\* the invocation ended in a failed decode of the raw request
DecodeFailed == pc = "failed" /\ outcome = None

\* C17: in a legacy invocation the steps taken so far are always a prefix of:
\* header decode, body decode, construction of the Request Value, invocation
\* of the handler, its resolution, then the outbound code, headers and body.
\* So each step happens at most once and in that order, the handler runs only
\* after both decodes, and the outbound response is written only after the
\* handler resolved; a completed invocation took every step once; after a
\* failed decode the handler was not invoked and nothing was written.
C17_LegacyEventOrder ==
    (strategy = "legacy" /\ pc \notin {"registering", "concurrent"})
    => /\ IsPrefix(events, LegacyOrder)
       /\ (req # None) = (Len(events) >= 3)
       /\ (res # None) = (Len(events) >= 4)
       /\ (outcome # None) = (Len(events) >= 5)
       /\ (response # OutboundResponse) => Len(events) = Len(LegacyOrder)
       /\ pc = "done" => events = LegacyOrder
       /\ DecodeFailed => /\ Len(events) <= 1
                          /\ req = None /\ res = None
                          /\ response = OutboundResponse

\* a legacy invocation ran to its end and wrote a declared error outbound
C17_Witness ==
    /\ strategy = "legacy" /\ pc = "done"
    /\ events = LegacyOrder
    /\ response.code = "error" /\ response.body # None
    /\ HandlerRaised

\* the body decode of a legacy invocation failed after the header decode
C17_WitnessDecode ==
    /\ strategy = "legacy" /\ DecodeFailed /\ events = <<"get_header">>


----------------------------------------------------------------------------
\* C18: whatever write_header, write_result and write_exc_info calls were
\* made on a Response Value since it was created, an unfinished one has no
\* field of its result container set, and one with an exception field (field
\* id >= 1) set is finished and has code = error.
C18_ResponseValueInvariant ==
    (res # None)
    => /\ ~res.finished => SetFields(res.result) = {}
       /\ (\E i \in SetFields(res.result) : i >= 1)
          => (res.finished /\ res.code = "error")

\* the handler has written a header and then a declared error, and has gone
\* on to make a further call that failed
C18_Witness ==
    /\ res # None /\ pc = "handler" /\ lastCall # None
    /\ "write_header" \in hcalls
    /\ \E i \in SetFields(res.result) : i >= 1
    /\ lastCall.raised = AlreadySent


----------------------------------------------------------------------------
\* the call failed on the guard against a second write (the assert on
\* `finished`), or on the guard of a void method against a value
DoubleWrite(call) ==
    /\ call.raised = AlreadySent /\ call.pre.finished
    /\ \/ call.op = "write_result"
       \/ /\ call.op = "write_exc_info"
          /\ FirstMatch(call.pre.result.thrift_spec, call.arg, 2) # 0

VoidViolation(call) == call.op = "write_result" /\ call.raised = VoidResult

ContractFailure ==
    /\ lastCall # None
    /\ DoubleWrite(lastCall) \/ VoidViolation(lastCall)

\* C19 as stated: a write_result or write_exc_info call that fails on a
\* second write or on the void contract leaves the Response Value exactly as
\* it was, its status code included.
C19_AsStated ==
    ContractFailure => lastCall.post = lastCall.pre

\* C19: a write_result or write_exc_info call that fails on a second write
\* or on the void contract leaves the result container, the finished flag and
\* the headers as they were; a failing write_result also leaves the status
\* code, a failing write_exc_info has set it to error.
C19_FailedWriteKeepsContainer ==
    ContractFailure
    => /\ lastCall.post.result = lastCall.pre.result
       /\ lastCall.post.finished = lastCall.pre.finished
       /\ lastCall.post.headers = lastCall.pre.headers
       /\ lastCall.op = "write_result" => lastCall.post.code = lastCall.pre.code
       /\ lastCall.op = "write_exc_info" => lastCall.post.code = "error"

\* a write_exc_info with a declared error has failed on a response that held
\* a success with code = ok
C19_Witness ==
    /\ ContractFailure /\ lastCall.op = "write_exc_info"
    /\ lastCall.pre.code = "ok" /\ SetFields(lastCall.pre.result) = {0}
    /\ lastCall.post.code = "error"

\* a write_result with a value has failed on a void method
C19_WitnessVoid ==
    /\ lastCall # None /\ VoidViolation(lastCall) /\ ~lastCall.pre.finished

====
